---------------------------- MODULE Spec2Model ----------------------------
(***************************************************************************)
(* A model of c-stpl, the PDF splitter and printer tool:                   *)
(*   file_manager.py   FileManager   (names, ranges, conflict resolution)  *)
(*   pdf_splitter.py   PDFSplitter   (validation, ranges, split_pdf)       *)
(*   main.py           main          (the command line run)                *)
(*                                                                         *)
(* Strings are sequences of one-character strings, so that formatting      *)
(* ("{i+1:03d}"), pathlib's stem/suffix and the "_<counter>" renaming are    *)
(* computed character by character.  A path is a record                    *)
(* [parent, name]; the storage fs maps the existing paths to their         *)
(* content.                                                                *)
(***************************************************************************)
EXTENDS Integers, Sequences, FiniteSets, TLC

(***************************************************************************)
(* Bounds of the model.                                                    *)
(***************************************************************************)
\* the largest page count of an input document
MaxPages == 5
\* the largest number of "_<counter>" variants of one name that pre-exist
\* (the first generated name may have one more)
MaxVariants == 1
\* how many of the generated names (part 001, 002, ...) may pre-exist
MaxTaken == 2
\* the largest number of paths a client hands to print_multiple_files
MaxPrint == 3

VARIABLES
    \* ---- environment
    fs,            \* storage: [existing paths -> file content]
    peer,          \* a second instance of the tool on the same output
                   \* directory: where it stands, its document and
                   \* pages_per_split, its output_files, its loop index, and
                   \* the paths that existed when it resolved its names
    \* ---- FileManager / PDFSplitter object fields
    base_name,     \* FileManager.base_name (stem of the input file)
    total_pages,   \* PDFSplitter.total_pages
    reader,        \* PDFSplitter.reader is set (the PDF was loaded)
    \* ---- library harness: the last public method called and its result
    call,
    \* ---- the frame of PDFSplitter.split_pdf
    sp_pc,         \* where the call stands
    sp_pps,        \* argument pages_per_split
    sp_files,      \* argument output_files
    sp_cb,         \* argument progress_callback: "none", "print_progress", "user"
    ranges,        \* local ranges
    sp_i,          \* loop index i (0-based)
    page_num,      \* loop index page_num (0-based)
    writer,        \* the pages added to the current PdfWriter
    sp_ret,        \* the value returned: "none" (not yet), "True", "False"
    sp_exc,        \* the exception the except clause caught, "" if none
    events,        \* what the run did, in order: the output directory
                   \* created, the output paths resolved, progress calls,
                   \* pages added, files opened, files written
    \* ---- environment of a command line run
    out_dir_exists,\* the output directory exists
    \* ---- the frame of main
    m_pc,          \* where main stands
    args,          \* the parsed arguments
    output_files,  \* local output_files
    exit_code,     \* the value main returned, NoExit while it runs
    m_end,         \* why main ended, "" while it runs
    \* ---- PrinterManager and the frame of print_multiple_files
    pm_system,     \* PrinterManager.system
    pr_pc,         \* where the call stands: "idle", "loop", "returned", or
                   \* "raised" (an exception left the call)
    pr_files,      \* argument file_paths
    pr_cb,         \* argument progress_callback: "none", "print_progress", "user"
    pr_i,          \* loop index i (0-based)
    results,       \* local results: [str(path) -> (success, message)]
    dispatched     \* the paths handed to the platform print routine, in order

libVars == <<call>>
splitVars == <<sp_pc, sp_pps, sp_files, sp_cb, ranges, sp_i, page_num, writer,
               sp_ret, sp_exc, events>>
mainVars == <<m_pc, args, output_files, exit_code, m_end>>
printVars == <<pm_system, pr_pc, pr_files, pr_cb, pr_i, results, dispatched>>
vars == <<fs, peer, base_name, total_pages, reader, out_dir_exists, libVars, splitVars,
          mainVars, printVars>>

(***************************************************************************)
(* Python arithmetic.                                                      *)
(***************************************************************************)
Min(a, b) == IF a <= b THEN a ELSE b

\* a // b for b # 0 (floor division, also for a negative divisor)
PyFloorDiv(a, b) ==
    IF b > 0 THEN a \div b ELSE (0 - a) \div (0 - b)

\* a % b for b # 0 (the result has the sign of the divisor)
PyMod(a, b) == a - b * PyFloorDiv(a, b)

(***************************************************************************)
(* Strings and pathlib.                                                    *)
(***************************************************************************)
DigitChars == <<"0", "1", "2", "3", "4", "5", "6", "7", "8", "9">>

\* str(n) / "{n}" for n >= 0
RECURSIVE Decimal(_)
Decimal(n) ==
    IF n < 10 THEN <<DigitChars[n + 1]>>
    ELSE Append(Decimal(n \div 10), DigitChars[(n % 10) + 1])

RECURSIVE ZeroPad(_, _)
ZeroPad(s, width) ==
    IF Len(s) >= width THEN s ELSE ZeroPad(<<"0">> \o s, width)

\* "{n:03d}" for n >= 0
Format03d(n) == ZeroPad(Decimal(n), 3)

\* name.rfind('.') as a 1-based index, 0 when there is no dot
RECURSIVE RFindDot(_, _)
RFindDot(s, i) ==
    IF i = 0 THEN 0
    ELSE IF s[i] = "." THEN i ELSE RFindDot(s, i - 1)

\* pathlib: PurePath.suffix
PathSuffix(p) ==
    LET n == p.name
        i == RFindDot(n, Len(n))
    IN  IF 1 < i /\ i < Len(n) THEN SubSeq(n, i, Len(n)) ELSE <<>>

\* pathlib: PurePath.stem
PathStem(p) ==
    LET n == p.name
        i == RFindDot(n, Len(n))
    IN  IF 1 < i /\ i < Len(n) THEN SubSeq(n, 1, i - 1) ELSE n

\* pathlib: parent / name
Join(parent, name) == [parent |-> parent, name |-> name]

\* Path.exists()
Exists(p) == p \in DOMAIN fs

Str_part == <<"_", "p", "a", "r", "t", "_">>
Str_pdf == <<".", "p", "d", "f">>

\* FileManager.output_dir
output_dir == "out"


(***************************************************************************)
(* File content.  A source page is its 1-based page number; a file holds   *)
(* the pages written to it and whether the write ran to completion.        *)
(***************************************************************************)
\* the content of a file that was in the output directory before the run
OldContent == [pages |-> <<0>>, complete |-> TRUE]

(***************************************************************************)
(* Results of a call: exc = "" and the value, or the exception raised.     *)
(***************************************************************************)
Returned(v) == [exc |-> "", val |-> v]
Raised(e) == [exc |-> e, val |-> <<>>]

(***************************************************************************)
(* FileManager.get_split_ranges  (file_manager.py 86-102)                  *)
(***************************************************************************)
\* the loop "for start in range(0, total_pages, pages_per_split)", from start
RECURSIVE FM_ranges_from(_, _, _)
FM_ranges_from(start, total, pps) ==
    IF pps <= 0 \/ start >= total THEN <<>>
    ELSE LET end == Min(start + pps - 1, total - 1)
         IN  <<<<start + 1, end + 1>>>> \o FM_ranges_from(start + pps, total, pps)

\* mutant: the end is not clamped to the last page
RECURSIVE FM_ranges_from_unclamped(_, _, _)
FM_ranges_from_unclamped(start, total, pps) ==
    IF pps <= 0 \/ start >= total THEN <<>>
    ELSE LET end == start + pps - 1
         IN  <<<<start + 1, end + 1>>>>
                 \o FM_ranges_from_unclamped(start + pps, total, pps)

get_split_ranges_unclamped(total, pps) ==
    IF pps = 0 THEN Raised("ValueError")
    ELSE Returned(FM_ranges_from_unclamped(0, total, pps))

get_split_ranges(total, pps) ==
    IF pps = 0 THEN Raised("ValueError")
    ELSE Returned(FM_ranges_from(0, total, pps))

(***************************************************************************)
(* PDFSplitter._get_page_ranges  (pdf_splitter.py 138-152)                 *)
(***************************************************************************)
RECURSIVE PS_ranges_from(_, _, _)
PS_ranges_from(start, total, pps) ==
    IF pps <= 0 \/ start >= total THEN <<>>
    ELSE LET end == Min(start + pps - 1, total - 1)
         IN  <<<<start + 1, end + 1>>>> \o PS_ranges_from(start + pps, total, pps)

get_page_ranges(total, pps) ==
    IF pps = 0 THEN Raised("ValueError")
    ELSE Returned(PS_ranges_from(0, total, pps))

(***************************************************************************)
(* PDFSplitter.validate_split_parameters  (pdf_splitter.py 96-112)         *)
(***************************************************************************)
\* mutant: a cap equal to the page count is accepted
validate_split_parameters_gt(total, pps) ==
    IF pps <= 0
    THEN [is_valid |-> FALSE, msg |-> "Pages per split must be greater than 0"]
    ELSE IF pps > total
    THEN [is_valid |-> FALSE,
          msg |-> "Pages per split should be less than total pages"]
    ELSE [is_valid |-> TRUE, msg |-> ""]

validate_split_parameters(total, pps) ==
    IF pps <= 0
    THEN [is_valid |-> FALSE, msg |-> "Pages per split must be greater than 0"]
    ELSE IF pps >= total
    THEN [is_valid |-> FALSE,
          msg |-> "Pages per split should be less than total pages"]
    ELSE [is_valid |-> TRUE, msg |-> ""]

(***************************************************************************)
(* PDFSplitter.calculate_split_info  (pdf_splitter.py 114-136)             *)
(***************************************************************************)
\* mutant: an evenly divisible document reports a last split of 0 pages
calculate_split_info_nofix(total, pps) ==
    IF pps = 0 THEN Raised("ZeroDivisionError")
    ELSE Returned([total_pages |-> total,
                   pages_per_split |-> pps,
                   num_splits |-> PyFloorDiv(total + pps - 1, pps),
                   last_split_pages |-> PyMod(total, pps),
                   ranges |-> get_page_ranges(total, pps).val])

calculate_split_info(total, pps) ==
    IF pps = 0 THEN Raised("ZeroDivisionError")
    ELSE LET num_splits == PyFloorDiv(total + pps - 1, pps)
             rem == PyMod(total, pps)
             last_split_pages == IF rem = 0 THEN pps ELSE rem
         IN  Returned([total_pages |-> total,
                       pages_per_split |-> pps,
                       num_splits |-> num_splits,
                       last_split_pages |-> last_split_pages,
                       ranges |-> get_page_ranges(total, pps).val])

(***************************************************************************)
(* FileManager.generate_output_filenames  (file_manager.py 65-84)          *)
(***************************************************************************)
\* the loop body for the 0-based i: f"{base_name}_part_{i+1:03d}.pdf"
output_path(base, i) ==
    Join(output_dir, base \o Str_part \o Format03d(i + 1) \o Str_pdf)

\* mutant: every split gets the name of the last one
generate_output_filenames_same(base, total, pps) ==
    IF pps = 0 THEN Raised("ZeroDivisionError")
    ELSE LET num_splits == PyFloorDiv(total + pps - 1, pps)
         IN  Returned([k \in 1..num_splits |-> output_path(base, num_splits - 1)])

\* mutant: the part number is the 0-based loop index
generate_output_filenames_zero(base, total, pps) ==
    IF pps = 0 THEN Raised("ZeroDivisionError")
    ELSE LET num_splits == PyFloorDiv(total + pps - 1, pps)
         IN  Returned([k \in 1..num_splits |-> output_path(base, k - 2)])

generate_output_filenames(base, total, pps) ==
    IF pps = 0 THEN Raised("ZeroDivisionError")
    ELSE LET num_splits == PyFloorDiv(total + pps - 1, pps)
         IN  Returned([k \in 1..num_splits |-> output_path(base, k - 1)])

(***************************************************************************)
(* FileManager.handle_filename_conflicts  (file_manager.py 104-129)        *)
(***************************************************************************)
\* f"{stem}_{counter}{suffix}" under the parent of the original path
renamed(original_path, counter) ==
    Join(original_path.parent,
         PathStem(original_path) \o <<"_">> \o Decimal(counter)
             \o PathSuffix(original_path))

\* the loop "while file_path.exists()" entered with (file_path, counter)
RECURSIVE resolve_loop(_, _, _)
resolve_loop(original_path, file_path, counter) ==
    IF Exists(file_path)
    THEN resolve_loop(original_path, renamed(original_path, counter), counter + 1)
    ELSE file_path

\* mutant: the renamed path is not tested again
handle_filename_conflicts_once(files) ==
    [k \in 1..Len(files) |->
        IF Exists(files[k]) THEN renamed(files[k], 1)
        ELSE files[k]]

handle_filename_conflicts(files) ==
    [k \in 1..Len(files) |->
        resolve_loop(files[k], files[k], 1)]


(***************************************************************************)
(* PDFSplitter.split_pdf  (pdf_splitter.py 154-197), one action per step   *)
(* of the call.  Every exception raised inside the try block is caught by  *)
(* "except Exception" (195-197): the call prints the error and returns     *)
(* False.                                                                  *)
(***************************************************************************)
\* the frame before split_pdf is called
SplitIdle ==
    /\ sp_pc = "idle"
    /\ sp_pps = 0
    /\ sp_files = <<>>
    /\ sp_cb = "none"
    /\ ranges = <<>>
    /\ sp_i = 0
    /\ page_num = 0
    /\ writer = <<>>
    /\ sp_ret = "none"
    /\ sp_exc = ""
    /\ events = <<>>

\* the storage with content c at path
WriteFile(path, c) ==
    [q \in DOMAIN fs \cup {path} |-> IF q = path THEN c ELSE fs[q]]

\* split_pdf(pages_per_split, output_files, progress_callback) is entered
split_pdf_call(pps, files, cb) ==
    /\ sp_pc = "idle"
    /\ sp_pc' = "entry"
    /\ sp_pps' = pps
    /\ sp_files' = files
    /\ sp_cb' = cb
    /\ UNCHANGED <<ranges, sp_i, page_num, writer, sp_ret, sp_exc, events>>

\* mutant: the exception is printed and the call reports success
split_except_swallow(e) ==
    /\ sp_exc' = e
    /\ sp_ret' = "True"
    /\ sp_pc' = "returned"

\* 195-197: except Exception: print, return False
split_except(e) ==
    /\ sp_exc' = e
    /\ sp_ret' = "False"
    /\ sp_pc' = "returned"

\* 167-172: the reader check and ranges = self._get_page_ranges(...)
SplitEntry ==
    /\ sp_pc = "entry"
    /\ IF ~reader
       THEN /\ sp_ret' = "False"
            /\ sp_pc' = "returned"
            /\ UNCHANGED <<ranges, sp_exc>>
       ELSE LET r == get_page_ranges(total_pages, sp_pps)
            IN  IF r.exc # ""
                THEN split_except(r.exc) /\ UNCHANGED ranges
                ELSE /\ ranges' = r.val
                     /\ sp_pc' = "loop"
                     /\ UNCHANGED <<sp_ret, sp_exc>>
    /\ UNCHANGED <<fs, peer, base_name, total_pages, reader, out_dir_exists, libVars,
                   mainVars, printVars,
                   sp_pps, sp_files, sp_cb, sp_i, page_num, writer, events>>

\* 174 and 193: the next range of "for i, (start_page, end_page) in
\* enumerate(ranges)", or return True after the last one
SplitLoop ==
    /\ sp_pc = "loop"
    /\ IF sp_i < Len(ranges)
       THEN sp_pc' = "callback" /\ UNCHANGED sp_ret
       ELSE sp_pc' = "returned" /\ sp_ret' = "True"
    /\ UNCHANGED <<fs, peer, base_name, total_pages, reader, out_dir_exists, libVars,
                   mainVars, printVars,
                   sp_pps, sp_files, sp_cb, ranges, sp_i, page_num, writer,
                   sp_exc, events>>

\* what a callback may do: main's print_progress returns; a client's
\* callback may raise
CallbackRaises(cb) == IF cb = "user" THEN BOOLEAN ELSE {FALSE}

\* mutant: the callback gets the 0-based loop index
SplitCallback_zero_based ==
    /\ sp_pc = "callback"
    /\ IF sp_cb = "none"
       THEN /\ sp_pc' = "add"
            /\ UNCHANGED <<events, sp_ret, sp_exc>>
       ELSE /\ events' = Append(events, [ev |-> "progress", i |-> sp_i,
                                         total |-> Len(ranges)])
            /\ \E raises \in CallbackRaises(sp_cb) :
                   IF raises THEN split_except("CallbackError")
                   ELSE sp_pc' = "add" /\ UNCHANGED <<sp_ret, sp_exc>>
    /\ IF sp_pc' = "add"
       THEN writer' = <<>> /\ page_num' = ranges[sp_i + 1][1] - 1
       ELSE UNCHANGED <<writer, page_num>>
    /\ UNCHANGED <<fs, peer, base_name, total_pages, reader, out_dir_exists, libVars,
                   mainVars, printVars,
                   sp_pps, sp_files, sp_cb, ranges, sp_i>>

\* 175-179: progress_callback(i + 1, len(ranges), ...) if given, then
\* writer = PdfWriter()
SplitCallback ==
    /\ sp_pc = "callback"
    /\ IF sp_cb = "none"
       THEN /\ sp_pc' = "add"
            /\ UNCHANGED <<events, sp_ret, sp_exc>>
       ELSE /\ events' = Append(events, [ev |-> "progress", i |-> sp_i + 1,
                                         total |-> Len(ranges)])
            /\ \E raises \in CallbackRaises(sp_cb) :
                   IF raises THEN split_except("CallbackError")
                   ELSE sp_pc' = "add" /\ UNCHANGED <<sp_ret, sp_exc>>
    /\ IF sp_pc' = "add"
       THEN writer' = <<>> /\ page_num' = ranges[sp_i + 1][1] - 1
       ELSE UNCHANGED <<writer, page_num>>
    /\ UNCHANGED <<fs, peer, base_name, total_pages, reader, out_dir_exists, libVars,
                   mainVars, printVars,
                   sp_pps, sp_files, sp_cb, ranges, sp_i>>

\* mutant: the 1-based page number is used as the 0-based index, so the page
\* after the wanted one is added
SplitAddPage_next_page ==
    /\ sp_pc = "add"
    /\ IF page_num < ranges[sp_i + 1][2]
       THEN \E ok \in BOOLEAN :
                IF ok
                THEN /\ writer' = Append(writer, page_num + 2)
                     /\ page_num' = page_num + 1
                     /\ events' = Append(events, [ev |-> "add_page", i |-> sp_i + 1,
                                                  page |-> page_num + 1])
                     /\ UNCHANGED <<sp_pc, sp_ret, sp_exc>>
                ELSE /\ split_except("PdfReadError")
                     /\ UNCHANGED <<writer, page_num, events>>
       ELSE /\ sp_pc' = "open"
            /\ UNCHANGED <<writer, page_num, events, sp_ret, sp_exc>>
    /\ UNCHANGED <<fs, peer, base_name, total_pages, reader, out_dir_exists, libVars,
                   mainVars, printVars,
                   sp_pps, sp_files, sp_cb, ranges, sp_i>>

\* 182-183: "for page_num in range(start_page - 1, end_page)":
\* writer.add_page(self.reader.pages[page_num]); reading the page may fail
SplitAddPage ==
    /\ sp_pc = "add"
    /\ IF page_num < ranges[sp_i + 1][2]
       THEN \E ok \in BOOLEAN :
                IF ok
                THEN /\ writer' = Append(writer, page_num + 1)
                     /\ page_num' = page_num + 1
                     /\ events' = Append(events, [ev |-> "add_page", i |-> sp_i + 1,
                                                  page |-> page_num + 1])
                     /\ UNCHANGED <<sp_pc, sp_ret, sp_exc>>
                ELSE /\ split_except("PdfReadError")
                     /\ UNCHANGED <<writer, page_num, events>>
       ELSE /\ sp_pc' = "open"
            /\ UNCHANGED <<writer, page_num, events, sp_ret, sp_exc>>
    /\ UNCHANGED <<fs, peer, base_name, total_pages, reader, out_dir_exists, libVars,
                   mainVars, printVars,
                   sp_pps, sp_files, sp_cb, ranges, sp_i>>

\* 186-187: output_file = output_files[i]; open(output_file, 'wb') creates
\* the file or truncates it; the index or the open may fail
SplitOpen ==
    /\ sp_pc = "open"
    /\ IF sp_i >= Len(sp_files)
       THEN /\ split_except("IndexError")
            /\ UNCHANGED <<fs, events>>
       ELSE \E ok \in (IF out_dir_exists THEN BOOLEAN ELSE {FALSE}) :
                IF ok
                THEN /\ fs' = WriteFile(sp_files[sp_i + 1],
                                        [pages |-> <<>>, complete |-> FALSE])
                     /\ events' = Append(events, [ev |-> "open", i |-> sp_i + 1,
                                                  path |-> sp_files[sp_i + 1]])
                     /\ sp_pc' = "write"
                     /\ UNCHANGED <<sp_ret, sp_exc>>
                ELSE /\ split_except("OSError")
                     /\ UNCHANGED <<fs, events>>
    /\ UNCHANGED <<peer, base_name, total_pages, reader, out_dir_exists, libVars,
                   mainVars, printVars,
                   sp_pps, sp_files, sp_cb, ranges, sp_i, page_num, writer>>

\* mutant: a failed write is noted and the loop goes on with the next range
SplitWrite_continue ==
    /\ sp_pc = "write"
    /\ \E ok \in BOOLEAN :
           IF ok
           THEN /\ fs' = WriteFile(sp_files[sp_i + 1],
                                   [pages |-> writer, complete |-> TRUE])
                /\ events' = Append(events, [ev |-> "write", i |-> sp_i + 1,
                                             path |-> sp_files[sp_i + 1]])
                /\ sp_i' = sp_i + 1
                /\ sp_pc' = "loop"
                /\ UNCHANGED <<sp_ret, sp_exc>>
           ELSE /\ \E n \in 0..Len(writer) :
                       fs' = WriteFile(sp_files[sp_i + 1],
                                       [pages |-> SubSeq(writer, 1, n),
                                        complete |-> FALSE])
                /\ sp_exc' = "OSError"
                /\ sp_i' = sp_i + 1
                /\ sp_pc' = "loop"
                /\ UNCHANGED <<events, sp_ret>>
    /\ UNCHANGED <<peer, base_name, total_pages, reader, out_dir_exists, libVars,
                   mainVars, printVars,
                   sp_pps, sp_files, sp_cb, ranges, page_num, writer>>

\* 188-191: writer.write(output_pdf), the file is closed, "Created: ..." is
\* printed; a failing write leaves what it had written so far
SplitWrite ==
    /\ sp_pc = "write"
    /\ \E ok \in BOOLEAN :
           IF ok
           THEN /\ fs' = WriteFile(sp_files[sp_i + 1],
                                   [pages |-> writer, complete |-> TRUE])
                /\ events' = Append(events, [ev |-> "write", i |-> sp_i + 1,
                                             path |-> sp_files[sp_i + 1]])
                /\ sp_i' = sp_i + 1
                /\ sp_pc' = "loop"
                /\ UNCHANGED <<sp_ret, sp_exc>>
           ELSE /\ \E n \in 0..Len(writer) :
                       fs' = WriteFile(sp_files[sp_i + 1],
                                       [pages |-> SubSeq(writer, 1, n),
                                        complete |-> FALSE])
                /\ split_except("OSError")
                /\ UNCHANGED <<events, sp_i>>
    /\ UNCHANGED <<peer, base_name, total_pages, reader, out_dir_exists, libVars,
                   mainVars, printVars,
                   sp_pps, sp_files, sp_cb, ranges, page_num, writer>>

split_pdf ==
    \/ SplitEntry
    \/ SplitLoop
    \/ SplitCallback
    \/ SplitAddPage
    \/ SplitOpen
    \/ SplitWrite

(***************************************************************************)
(* PrinterManager  (printer_manager.py)                                    *)
(***************************************************************************)
\* platform.system(): the three supported systems and an unsupported one
Systems == {"Windows", "Darwin", "Linux", "Java"}

\* str.lower() on the characters of a suffix
LowerChar(ch) ==
    CASE ch = "P" -> "p"
      [] ch = "D" -> "d"
      [] ch = "F" -> "f"
      [] OTHER -> ch

Lower(str) == [k \in 1..Len(str) |-> LowerChar(str[k])]

\* str(path)
PathStr(path) == <<path.parent, "/">> \o path.name

\* the frame before print_multiple_files is called
PrintIdle ==
    /\ pm_system = ""
    /\ pr_pc = "idle"
    /\ pr_files = <<>>
    /\ pr_cb = "none"
    /\ pr_i = 0
    /\ results = <<>>
    /\ dispatched = <<>>

\* what _print_windows / _print_mac / _print_linux may do with a file: return
\* (True, ...), return (False, ...) after CalledProcessError, or raise another
\* exception (the print command is missing)
PlatformOutcomes == {"sent", "failed", "raised"}

\* mutant: the suffix is not looked at
print_file_any_suffix(file_path, what) ==
    IF ~Exists(file_path)
    THEN [success |-> FALSE, message |-> "File not found", dispatch |-> FALSE]
    ELSE IF pm_system \in {"Windows", "Darwin", "Linux"}
    THEN CASE what = "sent" ->
                  [success |-> TRUE, message |-> "Sent to printer",
                   dispatch |-> TRUE]
           [] what = "failed" ->
                  [success |-> FALSE, message |-> "print failed",
                   dispatch |-> TRUE]
           [] OTHER ->
                  [success |-> FALSE, message |-> "Print error",
                   dispatch |-> TRUE]
    ELSE [success |-> FALSE, message |-> "Printing not supported",
          dispatch |-> FALSE]

\* print_file (154-183): the outcome for file_path when the platform routine,
\* if reached, does what
print_file(file_path, what) ==
    IF ~Exists(file_path)
    THEN [success |-> FALSE, message |-> "File not found", dispatch |-> FALSE]
    ELSE IF Lower(PathSuffix(file_path)) # Str_pdf
    THEN [success |-> FALSE, message |-> "Only PDF files are supported",
          dispatch |-> FALSE]
    ELSE IF pm_system \in {"Windows", "Darwin", "Linux"}
    THEN CASE what = "sent" ->
                  [success |-> TRUE, message |-> "Sent to printer",
                   dispatch |-> TRUE]
           [] what = "failed" ->
                  [success |-> FALSE, message |-> "print failed",
                   dispatch |-> TRUE]
           [] OTHER ->
                  [success |-> FALSE, message |-> "Print error",
                   dispatch |-> TRUE]
    ELSE [success |-> FALSE, message |-> "Printing not supported",
          dispatch |-> FALSE]

\* print_multiple_files(file_paths, ..., progress_callback) is entered (272)
print_multiple_files_call(files, cb) ==
    /\ pr_pc = "idle"
    /\ pr_pc' = "loop"
    /\ pr_files' = files
    /\ pr_cb' = cb
    /\ pr_i' = 0
    /\ results' = <<>>
    /\ dispatched' = <<>>

\* mutant: the loop ends at the first file that was not printed
PrintOne_stop_on_failure ==
    /\ pr_pc = "loop"
    /\ pr_i < Len(pr_files)
    /\ events' = IF pr_cb = "none" THEN events
                 ELSE Append(events, [ev |-> "print_progress", i |-> pr_i + 1,
                                      total |-> Len(pr_files)])
    /\ \E raises \in CallbackRaises(pr_cb), what \in PlatformOutcomes :
           LET file_path == pr_files[pr_i + 1]
               r == print_file(file_path, what)
               key == PathStr(file_path)
               recorded == [k \in DOMAIN results \cup {key} |->
                               IF k = key
                               THEN [success |-> r.success, message |-> r.message]
                               ELSE results[k]]
           IN  IF raises
               THEN /\ pr_pc' = "raised"
                    /\ UNCHANGED <<results, dispatched, pr_i>>
               ELSE /\ results' = recorded
                    /\ dispatched' = IF r.dispatch THEN Append(dispatched, file_path)
                                     ELSE dispatched
                    /\ pr_i' = pr_i + 1
                    /\ pr_pc' = IF r.success THEN "loop" ELSE "returned"
    /\ UNCHANGED <<fs, peer, base_name, total_pages, reader, out_dir_exists, libVars,
                   mainVars, pm_system, pr_files, pr_cb,
                   sp_pc, sp_pps, sp_files, sp_cb, ranges, sp_i, page_num, writer,
                   sp_ret, sp_exc>>

\* mutant: only the files that were printed get an entry
PrintOne_skip_failed ==
    /\ pr_pc = "loop"
    /\ pr_i < Len(pr_files)
    /\ events' = IF pr_cb = "none" THEN events
                 ELSE Append(events, [ev |-> "print_progress", i |-> pr_i + 1,
                                      total |-> Len(pr_files)])
    /\ \E raises \in CallbackRaises(pr_cb), what \in PlatformOutcomes :
           LET file_path == pr_files[pr_i + 1]
               r == print_file(file_path, what)
               key == PathStr(file_path)
               recorded == [k \in DOMAIN results \cup {key} |->
                               IF k = key
                               THEN [success |-> r.success, message |-> r.message]
                               ELSE results[k]]
           IN  IF raises
               THEN /\ pr_pc' = "raised"
                    /\ UNCHANGED <<results, dispatched, pr_i>>
               ELSE /\ results' = IF r.success THEN recorded ELSE results
                    /\ dispatched' = IF r.dispatch THEN Append(dispatched, file_path)
                                     ELSE dispatched
                    /\ pr_i' = pr_i + 1
                    /\ pr_pc' = "loop"
    /\ UNCHANGED <<fs, peer, base_name, total_pages, reader, out_dir_exists, libVars,
                   mainVars, pm_system, pr_files, pr_cb,
                   sp_pc, sp_pps, sp_files, sp_cb, ranges, sp_i, page_num, writer,
                   sp_ret, sp_exc>>

\* 274-286: one iteration of "for i, file_path in enumerate(file_paths)":
\* the progress callback (an exception of a client's callback leaves the
\* call), print_file, results[str(file_path)] = (success, message)
PrintOne ==
    /\ pr_pc = "loop"
    /\ pr_i < Len(pr_files)
    /\ events' = IF pr_cb = "none" THEN events
                 ELSE Append(events, [ev |-> "print_progress", i |-> pr_i + 1,
                                      total |-> Len(pr_files)])
    /\ \E raises \in CallbackRaises(pr_cb), what \in PlatformOutcomes :
           LET file_path == pr_files[pr_i + 1]
               r == print_file(file_path, what)
               key == PathStr(file_path)
               recorded == [k \in DOMAIN results \cup {key} |->
                               IF k = key
                               THEN [success |-> r.success, message |-> r.message]
                               ELSE results[k]]
           IN  IF raises
               THEN /\ pr_pc' = "raised"
                    /\ UNCHANGED <<results, dispatched, pr_i>>
               ELSE /\ results' = recorded
                    /\ dispatched' = IF r.dispatch THEN Append(dispatched, file_path)
                                     ELSE dispatched
                    /\ pr_i' = pr_i + 1
                    /\ pr_pc' = "loop"
    /\ UNCHANGED <<fs, peer, base_name, total_pages, reader, out_dir_exists, libVars,
                   mainVars, pm_system, pr_files, pr_cb,
                   sp_pc, sp_pps, sp_files, sp_cb, ranges, sp_i, page_num, writer,
                   sp_ret, sp_exc>>

\* 288: return results
PrintReturn ==
    /\ pr_pc = "loop"
    /\ pr_i >= Len(pr_files)
    /\ pr_pc' = "returned"
    /\ UNCHANGED <<fs, peer, base_name, total_pages, reader, out_dir_exists, libVars,
                   mainVars, splitVars, pm_system, pr_files, pr_cb, pr_i, results,
                   dispatched>>

print_multiple_files ==
    \/ PrintOne
    \/ PrintReturn

(***************************************************************************)
(* main  (main.py 22-219), one action per stage of the run.                *)
(***************************************************************************)
NoExit == 0 - 1

\* the frame when main starts, the arguments not yet looked at
MainIdle ==
    /\ m_pc = "start"
    /\ output_files = <<>>
    /\ exit_code = NoExit
    /\ m_end = ""

\* main returns code
main_return(code, why) ==
    /\ m_pc' = "exit"
    /\ exit_code' = code
    /\ m_end' = why

\* 61-91: --list-printers, the missing input argument (parser.error exits
\* with status 2), the input path that does not exist or is no file
MainStart ==
    /\ m_pc = "start"
    /\ \E how \in {"list_printers", "no_input", "not_found", "not_a_file", "ok"} :
           CASE how = "list_printers" -> main_return(0, "list_printers")
             [] how = "no_input" -> main_return(2, "usage")
             [] how = "not_found" -> main_return(1, "input_not_found")
             [] how = "not_a_file" -> main_return(1, "input_not_a_file")
             [] OTHER -> /\ m_pc' = "load"
                         /\ UNCHANGED <<exit_code, m_end>>
    /\ UNCHANGED <<fs, peer, base_name, total_pages, reader, out_dir_exists, libVars,
                   splitVars, printVars, args, output_files>>

\* mutant: the output directory is created before the PDF is loaded
MainLoad_mkdir_first ==
    /\ m_pc = "load"
    /\ \E readable \in BOOLEAN, n \in 0..MaxPages :
           IF ~readable
           THEN /\ main_return(1, "load_error")
                /\ reader' \in BOOLEAN
                /\ UNCHANGED total_pages
           ELSE /\ reader' = TRUE
                /\ total_pages' = n
                /\ IF n = 0 THEN main_return(1, "load_error")
                   ELSE m_pc' = "validate" /\ UNCHANGED <<exit_code, m_end>>
    /\ out_dir_exists' = TRUE
    /\ events' = IF out_dir_exists THEN events
                 ELSE Append(events, [ev |-> "mkdir", i |-> 0])
    /\ UNCHANGED <<fs, peer, base_name, libVars, printVars, args, output_files,
                   sp_pc, sp_pps, sp_files, sp_cb, ranges, sp_i, page_num, writer,
                   sp_ret, sp_exc>>

\* 93-96 with load_pdf (pdf_splitter.py 25-45): the file is a PDF of n pages,
\* or PdfReader raises (reader stays None), or reading the page tree raises
\* after reader was assigned
MainLoad ==
    /\ m_pc = "load"
    /\ \E readable \in BOOLEAN, n \in 0..MaxPages :
           IF ~readable
           THEN /\ main_return(1, "load_error")
                /\ reader' \in BOOLEAN
                /\ UNCHANGED total_pages
           ELSE /\ reader' = TRUE
                /\ total_pages' = n
                /\ IF n = 0 THEN main_return(1, "load_error")
                   ELSE m_pc' = "validate" /\ UNCHANGED <<exit_code, m_end>>
    /\ UNCHANGED <<fs, peer, base_name, out_dir_exists, libVars, splitVars, printVars,
                   args, output_files>>

\* 108-112: validate_split_parameters(args.pages)
MainValidate ==
    /\ m_pc = "validate"
    /\ IF validate_split_parameters(total_pages, args.pages).is_valid
       THEN m_pc' = "preview" /\ UNCHANGED <<exit_code, m_end>>
       ELSE main_return(1, "invalid_parameter")
    /\ UNCHANGED <<fs, peer, base_name, total_pages, reader, out_dir_exists, libVars,
                   splitVars, printVars, args, output_files>>

\* 114-117: --preview prints the plan of calculate_split_info and returns 0
MainPreview ==
    /\ m_pc = "preview"
    /\ IF args.preview
       THEN /\ main_return(0, "preview")
            /\ call' = [fn |-> "calculate_split_info", total |-> total_pages,
                        pps |-> args.pages,
                        res |-> calculate_split_info(total_pages, args.pages)]
       ELSE /\ m_pc' = "mkdir"
            /\ UNCHANGED <<exit_code, m_end, call>>
    /\ UNCHANGED <<fs, peer, base_name, total_pages, reader, out_dir_exists,
                   splitVars, printVars, args, output_files>>

\* 119-121 with create_output_directory (file_manager.py 47-63):
\* mkdir(parents=True, exist_ok=True) may fail where the directory is missing
MainCreateDir ==
    /\ m_pc = "mkdir"
    /\ \E ok \in (IF out_dir_exists THEN {TRUE} ELSE BOOLEAN) :
           IF ok
           THEN /\ out_dir_exists' = TRUE
                /\ events' = IF out_dir_exists THEN events
                             ELSE Append(events, [ev |-> "mkdir", i |-> 0])
                /\ m_pc' = "generate"
                /\ UNCHANGED <<exit_code, m_end>>
           ELSE /\ main_return(1, "mkdir_error")
                /\ UNCHANGED <<out_dir_exists, events>>
    /\ UNCHANGED <<fs, peer, base_name, total_pages, reader, libVars, printVars,
                   args, output_files,
                   sp_pc, sp_pps, sp_files, sp_cb, ranges, sp_i, page_num, writer,
                   sp_ret, sp_exc>>

\* 123-126: output_files = generate_output_filenames(total_pages, args.pages)
MainGenerate ==
    /\ m_pc = "generate"
    /\ output_files' = generate_output_filenames(base_name, total_pages,
                                                 args.pages).val
    /\ m_pc' = "confirm"
    /\ UNCHANGED <<fs, peer, base_name, total_pages, reader, out_dir_exists, libVars,
                   splitVars, printVars, args, exit_code, m_end>>

\* 128-143: without --force, when a generated name exists, the user is asked
\* and any answer but y / yes cancels the run; on a closed standard input
\* input() raises EOFError, which the entry point (248-257) turns into
\* exit status 1
MainConfirm ==
    /\ m_pc = "confirm"
    /\ LET existing_files == {k \in 1..Len(output_files) : Exists(output_files[k])}
       IN  IF ~args.force /\ existing_files # {}
           THEN \E response \in {"y", "n", "eof"} :
                    CASE response = "y" ->
                             m_pc' = "resolve" /\ UNCHANGED <<exit_code, m_end>>
                      [] response = "eof" -> main_return(1, "unexpected_error")
                      [] OTHER -> main_return(0, "cancelled")
           ELSE m_pc' = "resolve" /\ UNCHANGED <<exit_code, m_end>>
    /\ UNCHANGED <<fs, peer, base_name, total_pages, reader, out_dir_exists, libVars,
                   splitVars, printVars, args, output_files>>

\* mutant: the generated names are used as they are
MainResolve_keep ==
    /\ m_pc = "resolve"
    /\ m_pc' = "split"
    /\ UNCHANGED <<fs, peer, base_name, total_pages, reader, out_dir_exists, libVars,
                   splitVars, printVars, args, output_files, exit_code, m_end>>

\* 145-146: output_files = handle_filename_conflicts(output_files)
MainResolve ==
    /\ m_pc = "resolve"
    /\ output_files' = handle_filename_conflicts(output_files)
    /\ events' = Append(events, [ev |-> "resolve", i |-> 0,
                                 seen |-> DOMAIN fs])
    /\ m_pc' = "split"
    /\ UNCHANGED <<fs, peer, base_name, total_pages, reader, out_dir_exists, libVars,
                   printVars, args, exit_code, m_end,
                   sp_pc, sp_pps, sp_files, sp_cb, ranges, sp_i, page_num, writer,
                   sp_ret, sp_exc>>

\* 148-154: split_pdf(args.pages, output_files, print_progress if verbose)
MainSplit ==
    /\ m_pc = "split"
    /\ split_pdf_call(args.pages, output_files,
                      IF args.verbose THEN "print_progress" ELSE "none")
    /\ m_pc' = "splitting"
    /\ UNCHANGED <<fs, peer, base_name, total_pages, reader, out_dir_exists, libVars,
                   printVars, args, output_files, exit_code, m_end>>

\* 156-160: a failed split ends the run with 1
MainAfterSplit ==
    /\ m_pc = "splitting"
    /\ sp_pc = "returned"
    /\ IF sp_ret = "True"
       THEN /\ m_pc' = IF args.print THEN "print" ELSE "summary"
            /\ UNCHANGED <<exit_code, m_end>>
       ELSE main_return(1, "split_failed")
    /\ UNCHANGED <<fs, peer, base_name, total_pages, reader, out_dir_exists, libVars,
                   splitVars, printVars, args, output_files>>

\* the run is on a system with a print command or on an unsupported one (the
\* three supported systems differ in the print harness only)
MainSystems == {"Linux", "Java"}

\* 163-197: PrinterManager(), the print options (a malformed option string
\* falls back to the defaults), the check of --printer (a printer that is
\* not listed: the user is asked, any answer but y / yes ends the run
\* with 0, and EOFError on a closed standard input ends it with 1 through
\* the entry point), then print_multiple_files(output_files, ...)
MainPrint ==
    /\ m_pc = "print"
    /\ \E system \in MainSystems,
          printer \in {"none", "listed", "unlisted_continue", "unlisted_cancel",
                      "unlisted_eof"} :
           /\ pm_system' = system
           /\ IF printer \in {"unlisted_cancel", "unlisted_eof"}
              THEN /\ IF printer = "unlisted_eof"
                      THEN main_return(1, "unexpected_error")
                      ELSE main_return(0, "print_cancelled")
                   /\ UNCHANGED <<pr_pc, pr_files, pr_cb, pr_i, results, dispatched>>
              ELSE /\ print_multiple_files_call(
                          output_files,
                          IF args.verbose THEN "print_progress" ELSE "none")
                   /\ m_pc' = "printing"
                   /\ UNCHANGED <<exit_code, m_end>>
    /\ UNCHANGED <<fs, peer, base_name, total_pages, reader, out_dir_exists, libVars,
                   splitVars, args, output_files>>

\* 199-219 after printing: the print summary (the successes are counted, the
\* failed files are listed), the summary, return 0
MainAfterPrint ==
    /\ m_pc = "printing"
    /\ pr_pc = "returned"
    /\ main_return(0, "done")
    /\ UNCHANGED <<fs, peer, base_name, total_pages, reader, out_dir_exists, libVars,
                   splitVars, printVars, args, output_files>>

\* 211-219 without --print: the summary, return 0
MainSummary ==
    /\ m_pc = "summary"
    /\ main_return(0, "done")
    /\ UNCHANGED <<fs, peer, base_name, total_pages, reader, out_dir_exists, libVars,
                   splitVars, printVars, args, output_files>>

main ==
    \/ MainStart
    \/ MainLoad
    \/ MainValidate
    \/ MainPreview
    \/ MainCreateDir
    \/ MainGenerate
    \/ MainConfirm
    \/ MainResolve
    \/ MainSplit
    \/ MainAfterSplit
    \/ MainPrint
    \/ MainAfterPrint
    \/ MainSummary

(***************************************************************************)
(* A second instance of the tool, started on another input file of the     *)
(* same name (so with the same base_name and output directory).  It runs   *)
(* the same main: of its run the model keeps the steps that touch the      *)
(* storage, each translated from the same code: handle_filename_conflicts  *)
(* (main.py 145-146) and, per range, the open and the write of split_pdf   *)
(* (pdf_splitter.py 186-188).  Its pages are numbered from 101 so that its *)
(* files can be told from those of the first instance.                     *)
(***************************************************************************)
\* no second instance
NoPeer == [pc |-> "absent", total |-> 0, pps |-> 0, files |-> <<>>, i |-> 0,
           seen |-> {}]

\* the content the second instance writes for range r of its document
PeerContent(r) == [pages |-> [j \in 1..(r[2] - r[1] + 1) |-> 100 + r[1] + j - 1],
                   complete |-> TRUE]

\* mutant: the second instance uses the generated names as they are
PeerResolve_keep ==
    /\ peer.pc = "resolve"
    /\ peer' = [peer EXCEPT
                    !.files = generate_output_filenames(base_name, peer.total,
                                                        peer.pps).val,
                    !.seen = DOMAIN fs,
                    !.pc = "open"]
    /\ UNCHANGED <<fs, base_name, total_pages, reader, out_dir_exists, libVars,
                   mainVars, printVars, splitVars>>

\* main.py 123-146 in the second instance: generate_output_filenames, then
\* handle_filename_conflicts on the storage as it is now
PeerResolve ==
    /\ peer.pc = "resolve"
    /\ peer' = [peer EXCEPT
                    !.files = handle_filename_conflicts(
                                  generate_output_filenames(base_name, peer.total,
                                                            peer.pps).val),
                    !.seen = DOMAIN fs,
                    !.pc = "open"]
    /\ UNCHANGED <<fs, base_name, total_pages, reader, out_dir_exists, libVars,
                   mainVars, printVars, splitVars>>

\* pdf_splitter.py 186-187 in the second instance: open(output_files[i], 'wb')
\* creates or truncates the file; after the last range the run is done
PeerOpen ==
    /\ peer.pc = "open"
    /\ IF peer.i < Len(peer.files)
       THEN /\ fs' = WriteFile(peer.files[peer.i + 1],
                               [pages |-> <<>>, complete |-> FALSE])
            /\ peer' = [peer EXCEPT !.pc = "write"]
       ELSE /\ peer' = [peer EXCEPT !.pc = "done"]
            /\ UNCHANGED fs
    /\ UNCHANGED <<base_name, total_pages, reader, out_dir_exists, libVars,
                   mainVars, printVars, splitVars>>

\* pdf_splitter.py 188 in the second instance: writer.write(output_pdf)
PeerWrite ==
    /\ peer.pc = "write"
    /\ fs' = WriteFile(peer.files[peer.i + 1],
                       PeerContent(get_page_ranges(peer.total, peer.pps).val[peer.i + 1]))
    /\ peer' = [peer EXCEPT !.i = peer.i + 1, !.pc = "open"]
    /\ UNCHANGED <<base_name, total_pages, reader, out_dir_exists, libVars,
                   mainVars, printVars, splitVars>>

second_instance ==
    \/ PeerResolve
    \/ PeerOpen
    \/ PeerWrite

\* the arguments of a client that does not run main
NoArgs == [pages |-> 0, force |-> FALSE, preview |-> FALSE, print |-> FALSE,
           verbose |-> FALSE]

\* main is not running (a client uses the library)
MainAbsent ==
    /\ m_pc = "absent"
    /\ args = NoArgs
    /\ output_files = <<>>
    /\ exit_code = NoExit
    /\ m_end = ""

(***************************************************************************)
(* The library harness: a client that owns a FileManager and a loaded      *)
(* PDFSplitter and calls their public methods with arguments of its        *)
(* choice.  call records the last call: method, arguments, result.         *)
(***************************************************************************)
\* the values a client passes as pages_per_split
PpsArgs == (0 - 1)..(MaxPages + 1)

\* stems of the input file
BaseNames == {<<"d">>, <<"a", ".", "b">>}

\* paths that may exist in the output directory before the run: the first
\* generated names and their "_<counter>" variants
VariantsOf(i) == IF i = 0 THEN 1..(MaxVariants + 1) ELSE 1..MaxVariants

Candidates(base) ==
    {output_path(base, i) : i \in 0..(MaxTaken - 1)}
        \cup UNION {{renamed(output_path(base, i), c) : c \in VariantsOf(i)} :
                        i \in 0..(MaxTaken - 1)}

\* a path that is no PDF and has no suffix
PlainPath == Join(output_dir, <<"x">>)

InitStorage ==
    /\ base_name \in BaseNames
    /\ \E taken \in SUBSET Candidates(base_name) :
           fs = [p \in taken |-> OldContent]

NoCall == [fn |-> "none"]

LibInit ==
    /\ InitStorage
    /\ total_pages \in 1..MaxPages
    /\ reader = TRUE
    /\ out_dir_exists = TRUE
    /\ peer = NoPeer
    /\ call = NoCall
    /\ SplitIdle
    /\ PrintIdle
    /\ MainAbsent

CallGetSplitRanges ==
    /\ call = NoCall
    /\ \E pps \in PpsArgs :
           call' = [fn |-> "get_split_ranges", total |-> total_pages,
                    pps |-> pps, res |-> get_split_ranges(total_pages, pps)]
    /\ UNCHANGED <<fs, peer, base_name, total_pages, reader, out_dir_exists, splitVars,
                   mainVars, printVars>>

CallGetPageRanges ==
    /\ call = NoCall
    /\ \E pps \in PpsArgs :
           call' = [fn |-> "_get_page_ranges", total |-> total_pages,
                    pps |-> pps, res |-> get_page_ranges(total_pages, pps)]
    /\ UNCHANGED <<fs, peer, base_name, total_pages, reader, out_dir_exists, splitVars,
                   mainVars, printVars>>

CallValidate ==
    /\ call = NoCall
    /\ \E pps \in PpsArgs :
           call' = [fn |-> "validate_split_parameters", total |-> total_pages,
                    pps |-> pps,
                    res |-> Returned(validate_split_parameters(total_pages, pps))]
    /\ UNCHANGED <<fs, peer, base_name, total_pages, reader, out_dir_exists, splitVars,
                   mainVars, printVars>>

CallCalculateSplitInfo ==
    /\ call = NoCall
    /\ \E pps \in PpsArgs :
           call' = [fn |-> "calculate_split_info", total |-> total_pages,
                    pps |-> pps, res |-> calculate_split_info(total_pages, pps)]
    /\ UNCHANGED <<fs, peer, base_name, total_pages, reader, out_dir_exists, splitVars,
                   mainVars, printVars>>

CallGenerate ==
    /\ call = NoCall
    /\ \E pps \in PpsArgs :
           call' = [fn |-> "generate_output_filenames", total |-> total_pages,
                    pps |-> pps,
                    res |-> generate_output_filenames(base_name, total_pages, pps)]
    /\ UNCHANGED <<fs, peer, base_name, total_pages, reader, out_dir_exists, splitVars,
                   mainVars, printVars>>

\* handle_filename_conflicts on the names generate_output_filenames returned
CallResolveGenerated ==
    /\ call = NoCall
    /\ \E pps \in PpsArgs \ {0} :
           LET files == generate_output_filenames(base_name, total_pages, pps).val
           IN  call' = [fn |-> "handle_filename_conflicts", generated |-> TRUE,
                        total |-> total_pages, pps |-> pps, files |-> files,
                        res |-> Returned(handle_filename_conflicts(files))]
    /\ UNCHANGED <<fs, peer, base_name, total_pages, reader, out_dir_exists, splitVars,
                   mainVars, printVars>>

\* handle_filename_conflicts on a path of the client's choice, given once or
\* twice in the list
CallResolveAny ==
    /\ call = NoCall
    /\ \E p \in Candidates(base_name) \cup {PlainPath}, n \in 1..2 :
           LET files == SubSeq(<<p, p>>, 1, n)
           IN  call' = [fn |-> "handle_filename_conflicts", generated |-> FALSE,
                        total |-> total_pages, pps |-> 0, files |-> files,
                        res |-> Returned(handle_filename_conflicts(files))]
    /\ UNCHANGED <<fs, peer, base_name, total_pages, reader, out_dir_exists, splitVars,
                   mainVars, printVars>>

\* the client drops the result; it may call again
Forget ==
    /\ call # NoCall
    /\ call' = NoCall
    /\ UNCHANGED <<fs, peer, base_name, total_pages, reader, out_dir_exists, splitVars,
                   mainVars, printVars>>

LibNext ==
    \/ CallGetSplitRanges
    \/ CallGetPageRanges
    \/ CallValidate
    \/ CallCalculateSplitInfo
    \/ CallGenerate
    \/ CallResolveGenerated
    \/ CallResolveAny
    \/ Forget

SpecLib == LibInit /\ [][LibNext]_vars


(***************************************************************************)
(* The split harness: a client that owns a PDFSplitter, loaded or not, and *)
(* calls split_pdf once with arguments of its choice.                      *)
(***************************************************************************)
\* distinct output paths, more than any document of the model has ranges
Pool(base) == [k \in 1..(MaxPages + 1) |-> output_path(base, k - 1)]

\* the lists a client passes as output_files: the first n paths of the pool,
\* or n times its first path
FileLists(base) ==
    {SubSeq(Pool(base), 1, n) : n \in 0..(MaxPages + 1)}
        \cup {[k \in 1..n |-> Pool(base)[1]] : n \in 2..3}

SplitInit ==
    /\ base_name \in BaseNames
    /\ \E taken \in SUBSET {output_path(base_name, 0)} :
           fs = [q \in taken |-> OldContent]
    /\ \/ reader = TRUE /\ total_pages \in 1..MaxPages
       \/ reader = FALSE /\ total_pages = 0
    /\ out_dir_exists = TRUE
    /\ peer = NoPeer
    /\ call = NoCall
    /\ SplitIdle
    /\ PrintIdle
    /\ MainAbsent

ClientSplit ==
    /\ sp_pc = "idle"
    /\ \E pps \in PpsArgs, files \in FileLists(base_name), cb \in {"none", "user"} :
           split_pdf_call(pps, files, cb)
    /\ UNCHANGED <<fs, peer, base_name, total_pages, reader, out_dir_exists, libVars,
                   mainVars, printVars>>

SplitNext ==
    \/ ClientSplit
    \/ split_pdf

SpecSplit == SplitInit /\ [][SplitNext]_vars

(***************************************************************************)
(* The print harness: a client that owns a PrinterManager and calls        *)
(* print_multiple_files once with paths of its choice.                     *)
(***************************************************************************)
\* a PDF with an upper-case suffix, a file that is no PDF, and a PDF that
\* does not exist
UpperPath == Join(output_dir, <<"s", ".", "P", "D", "F">>)
TextPath == Join(output_dir, <<"n", ".", "t", "x", "t">>)
MissingPath == Join(output_dir, <<"m", ".", "p", "d", "f">>)

\* the files in the output directory: two parts of "d.pdf" and the two
\* other files
PrintStorage ==
    {output_path(<<"d">>, i) : i \in 0..1} \cup {UpperPath, TextPath}

\* the paths a client passes
PrintPool == PrintStorage \cup {MissingPath}

\* the lists a client passes as file_paths
PrintLists == UNION {[1..n -> PrintPool] : n \in 0..MaxPrint}

PrintInit ==
    /\ base_name = <<"d">>
    /\ fs = [q \in PrintStorage |-> OldContent]
    /\ total_pages = 0
    /\ reader = FALSE
    /\ out_dir_exists = TRUE
    /\ peer = NoPeer
    /\ call = NoCall
    /\ SplitIdle
    /\ MainAbsent
    /\ pm_system \in Systems
    /\ pr_pc = "idle"
    /\ pr_files = <<>>
    /\ pr_cb = "none"
    /\ pr_i = 0
    /\ results = <<>>
    /\ dispatched = <<>>

ClientPrint ==
    /\ pr_pc = "idle"
    /\ \E files \in PrintLists, cb \in {"none", "user"} :
           print_multiple_files_call(files, cb)
    /\ UNCHANGED <<fs, peer, base_name, total_pages, reader, out_dir_exists, libVars,
                   mainVars, splitVars, pm_system>>

PrintNext ==
    \/ ClientPrint
    \/ print_multiple_files

SpecPrint == PrintInit /\ [][PrintNext]_vars

(***************************************************************************)
(* The command line run: one instance of the tool runs main.               *)
(***************************************************************************)
\* the run splits "d.pdf"
MainBaseNames == {<<"d">>}

\* files that may be in the output directory before the run: the first
\* generated names and the "_1" variant of the first of them
MainCandidates(base) ==
    {output_path(base, i) : i \in 0..(MaxTaken - 1)}
        \cup {renamed(output_path(base, 0), 1)}

Init ==
    /\ base_name \in MainBaseNames
    /\ \/ /\ out_dir_exists = TRUE
          /\ \E taken \in SUBSET MainCandidates(base_name) :
                 fs = [q \in taken |-> OldContent]
       \/ /\ out_dir_exists = FALSE
          /\ fs = <<>>
    /\ total_pages = 0
    /\ reader = FALSE
    /\ peer = NoPeer
    /\ call = NoCall
    /\ args \in [pages : PpsArgs, force : BOOLEAN, preview : BOOLEAN,
                 print : BOOLEAN, verbose : BOOLEAN]
    /\ SplitIdle
    /\ PrintIdle
    /\ MainIdle

Next ==
    \/ main
    \/ split_pdf
    \/ print_multiple_files

Spec == Init /\ [][Next]_vars

(***************************************************************************)
(* Two runs on one output directory: the first instance runs main without  *)
(* --preview and --print, a second instance may run beside it, and their   *)
(* steps interleave freely.                                                *)
(***************************************************************************)
RaceInit ==
    /\ base_name \in MainBaseNames
    /\ out_dir_exists = TRUE
    /\ \E taken \in SUBSET {output_path(base_name, 0)} :
           fs = [q \in taken |-> OldContent]
    /\ peer \in {NoPeer,
                  [pc |-> "resolve", total |-> 2, pps |-> 1, files |-> <<>>,
                   i |-> 0, seen |-> {}]}
    /\ total_pages = 0
    /\ reader = FALSE
    /\ call = NoCall
    /\ args \in [pages : 0..2, force : BOOLEAN, preview : {FALSE},
                 print : {FALSE}, verbose : {FALSE}]
    /\ SplitIdle
    /\ PrintIdle
    /\ MainIdle

RaceNext ==
    \/ MainStart
    \/ MainLoad
    \/ MainValidate
    \/ MainPreview
    \/ MainCreateDir
    \/ MainGenerate
    \/ MainConfirm
    \/ MainResolve
    \/ MainSplit
    \/ MainAfterSplit
    \/ MainSummary
    \/ split_pdf
    \/ second_instance

SpecRace == RaceInit /\ [][RaceNext]_vars

(***************************************************************************)
(* ------------------------------ Claims --------------------------------- *)
(***************************************************************************)
\* valid split parameters: 0 < pages_per_split < total_pages
ValidParams(total, pps) == 0 < pps /\ pps < total

\* ceil(a / b) for a >= 0, b > 0
CeilDiv(a, b) == CHOOSE n \in 0..a : n * b >= a /\ (n - 1) * b < a

RangeSize(r) == r[2] - r[1] + 1

PairwiseDistinct(f) ==
    \A j, k \in 1..Len(f) : j # k => f[j] # f[k]

\* the ranges start at page 1, end at page total, are contiguous and
\* non-empty, and there are ceil(total / pps) of them
IsPartition(r, total, pps) ==
    /\ Len(r) = CeilDiv(total, pps)
    /\ Len(r) >= 1
    /\ r[1][1] = 1
    /\ r[Len(r)][2] = total
    /\ \A k \in 1..Len(r) : r[k][1] <= r[k][2]
    /\ \A k \in 1..(Len(r) - 1) : r[k + 1][1] = r[k][2] + 1

\* C1: for valid (total_pages, pages_per_split) the range list returned by
\* FileManager.get_split_ranges and by PDFSplitter._get_page_ranges starts at
\* page 1, ends at page total_pages, is contiguous with start <= end in every
\* range, and has ceil(total_pages / pages_per_split) ranges.
C1_RangesPartition ==
    (/\ call.fn \in {"get_split_ranges", "_get_page_ranges"}
     /\ ValidParams(call.total, call.pps))
        => /\ call.res.exc = ""
           /\ IsPartition(call.res.val, call.total, call.pps)

C1_Witness ==
    /\ call.fn = "get_split_ranges"
    /\ call.total = 5
    /\ call.pps = 2
    /\ call.res.val = <<<<1, 2>>, <<3, 4>>, <<5, 5>>>>

\* C2: for valid parameters every range but the last has exactly
\* pages_per_split pages, the last has 1..pages_per_split pages, and
\* calculate_split_info reports last_split_pages = the size of the last range
\* and num_splits = the number of ranges.
C2_SplitSizes ==
    (/\ call.fn = "calculate_split_info"
     /\ ValidParams(call.total, call.pps))
        => /\ call.res.exc = ""
           /\ LET info == call.res.val
                  r == info.ranges
                  n == Len(r)
              IN  /\ n >= 1
                  /\ \A k \in 1..(n - 1) : RangeSize(r[k]) = call.pps
                  /\ RangeSize(r[n]) \in 1..call.pps
                  /\ info.last_split_pages = RangeSize(r[n])
                  /\ info.num_splits = n

C2_Witness ==
    /\ call.fn = "calculate_split_info"
    /\ call.total = 4
    /\ call.pps = 2
    /\ call.res.val.last_split_pages = 2
    /\ call.res.val.num_splits = 2

\* the digit a character denotes
DigitValue(ch) == CHOOSE d \in 0..9 : DigitChars[d + 1] = ch

IsDigit(ch) == \E d \in 0..9 : DigitChars[d + 1] = ch

\* name is "<base>_part_<ddd>.pdf" with ddd the three digits of k
IsPartName(name, base, k) ==
    LET b == Len(base)
    IN  /\ Len(name) = b + 13
        /\ SubSeq(name, 1, b) = base
        /\ SubSeq(name, b + 1, b + 6) = <<"_", "p", "a", "r", "t", "_">>
        /\ \A j \in (b + 7)..(b + 9) : IsDigit(name[j])
        /\ 100 * DigitValue(name[b + 7]) + 10 * DigitValue(name[b + 8])
               + DigitValue(name[b + 9]) = k
        /\ SubSeq(name, b + 10, b + 13) = <<".", "p", "d", "f">>

\* C4: generate_output_filenames maps the i-th split (from 1) to
\* "<base_name>_part_<i, 3 digits>.pdf" in output_dir; the names of one call
\* are pairwise distinct and as many as the ranges of _get_page_ranges.
C4_OutputNames ==
    (/\ call.fn = "generate_output_filenames"
     /\ call.pps >= 1)
        => /\ call.res.exc = ""
           /\ LET f == call.res.val
              IN  /\ \A k \in 1..Len(f) :
                         /\ f[k].parent = output_dir
                         /\ IsPartName(f[k].name, base_name, k)
                  /\ PairwiseDistinct(f)
                  /\ Len(f) = Len(get_page_ranges(call.total, call.pps).val)

C4_Witness ==
    /\ call.fn = "generate_output_filenames"
    /\ base_name = <<"d">>
    /\ call.total = 5
    /\ call.pps = 2
    /\ Len(call.res.val) = 3
    /\ call.res.val[3].name
           = <<"d", "_", "p", "a", "r", "t", "_", "0", "0", "3", ".", "p", "d", "f">>

\* "<stem>_<k><suffix>" in the directory of p
WithCounter(p, k) ==
    [parent |-> p.parent,
     name |-> PathStem(p) \o <<"_">> \o Decimal(k) \o PathSuffix(p)]

\* C5: on a fixed storage, handle_filename_conflicts returns for each proposed
\* path the path itself when it does not exist, otherwise "<stem>_<k><suffix>"
\* with k the smallest integer >= 1 whose name does not exist; no returned
\* path exists, the output has the length and order of the input, and the
\* call repeated on the same storage returns the same list.
C5_ConflictResolution ==
    call.fn = "handle_filename_conflicts"
        => LET files == call.files
               out == call.res.val
           IN  /\ Len(out) = Len(files)
               /\ \A k \in 1..Len(files) :
                      /\ ~Exists(out[k])
                      /\ IF ~Exists(files[k]) THEN out[k] = files[k]
                         ELSE \E c \in 1..(Cardinality(DOMAIN fs) + 1) :
                                  /\ out[k] = WithCounter(files[k], c)
                                  /\ \A c2 \in 1..(c - 1) :
                                         Exists(WithCounter(files[k], c2))
               /\ handle_filename_conflicts(files) = out

\* "d_part_001.pdf" and "d_part_001_1.pdf" exist: resolved to "d_part_001_2.pdf"
C5_Witness ==
    /\ call.fn = "handle_filename_conflicts"
    /\ Len(call.files) >= 1
    /\ call.files[1].name
           = <<"d", "_", "p", "a", "r", "t", "_", "0", "0", "1", ".", "p", "d", "f">>
    /\ Exists(call.files[1])
    /\ Exists(WithCounter(call.files[1], 1))
    /\ call.res.val[1].name
           = <<"d", "_", "p", "a", "r", "t", "_", "0", "0", "1", "_", "2",
               ".", "p", "d", "f">>

\* C6: handle_filename_conflicts applied to the names of
\* generate_output_filenames never returns the same path twice, whatever
\* files exist in the output directory.
C6_ResolvedDistinct ==
    (call.fn = "handle_filename_conflicts" /\ call.generated)
        => PairwiseDistinct(call.res.val)

\* the first two generated names and their "_1" variants exist
C6_Witness ==
    /\ call.fn = "handle_filename_conflicts"
    /\ call.generated
    /\ Len(call.files) >= 3
    /\ \A k \in 1..2 : Exists(call.files[k]) /\ Exists(WithCounter(call.files[k], 1))
    /\ call.res.val[1] # call.files[1]
    /\ call.res.val[2] # call.files[2]


\* main has run validate_split_parameters (main.py 109)
Validated ==
    /\ m_pc \notin {"absent", "start", "load", "validate"}
    /\ m_end \notin {"list_printers", "usage", "input_not_found",
                     "input_not_a_file", "load_error"}

\* no file of the storage was created or changed by the run
StorageUntouched == \A q \in DOMAIN fs : fs[q] = OldContent

\* C3: validate_split_parameters reports an error (is_valid False, a
\* non-empty message) exactly when pages_per_split <= 0 or pages_per_split >=
\* total_pages; in main an invalid parameter ends the run with exit code 1
\* before any range is computed or any file is written.
C3_InvalidParameter ==
    Validated
        => LET v == validate_split_parameters(total_pages, args.pages)
               invalid == args.pages <= 0 \/ args.pages >= total_pages
           IN  /\ v.is_valid = ~invalid
               /\ (v.msg # "") = invalid
               /\ (m_end = "invalid_parameter") = invalid
               /\ invalid
                      => /\ exit_code = 1
                         /\ m_pc = "exit"
                         /\ ranges = <<>>
                         /\ call = NoCall
                         /\ sp_pc = "idle"
                         /\ events = <<>>
                         /\ output_files = <<>>
                         /\ StorageUntouched

\* --pages equal to the page count of a 3-page document
C3_Witness ==
    /\ Validated
    /\ total_pages = 3
    /\ args.pages = 3
    /\ m_end = "invalid_parameter"
    /\ exit_code = 1

\* the pages start..end in ascending order
PageSpan(r) == [j \in 1..RangeSize(r) |-> r[1] + j - 1]

\* C7: when split_pdf returns True, for every range i the file at
\* output_files[i] holds exactly the source pages start_i..end_i in ascending
\* order, so that the written files together hold every source page exactly
\* once.
C7_SplitContent ==
    sp_ret = "True"
        => /\ \A k \in 1..Len(ranges) :
                  /\ k <= Len(sp_files)
                  /\ Exists(sp_files[k])
                  /\ fs[sp_files[k]] = [pages |-> PageSpan(ranges[k]),
                                        complete |-> TRUE]
           /\ \A page \in 1..total_pages :
                  Cardinality({w \in {sp_files[k] : k \in 1..Len(ranges)} :
                                   \E j \in 1..Len(fs[w].pages) :
                                       fs[w].pages[j] = page}) = 1

\* 5 pages split by 2 where "d_part_001.pdf" existed and was renamed
C7_Witness ==
    /\ sp_ret = "True"
    /\ total_pages = 5
    /\ Len(ranges) = 3
    /\ sp_files[1] # output_path(base_name, 0)
    /\ fs[sp_files[3]].pages = <<5>>

\* the events of split_pdf among the recorded events
SplitEvents ==
    SelectSeq(events, LAMBDA e : e.ev \in {"progress", "add_page", "open", "write"})

ProgressEvents == SelectSeq(events, LAMBDA e : e.ev = "progress")

\* C8: split_pdf works on the ranges in ascending order, range i+1 is not
\* started before range i is written, a given progress callback is called for
\* range i with (i, number of ranges) before any page of range i is added or
\* written, and the callback indices of a run are 1, 2, 3, ...
C8_OrderAndProgress ==
    LET ev == SplitEvents
        pe == ProgressEvents
    IN  /\ \A a, b \in 1..Len(ev) : a < b => ev[a].i <= ev[b].i
        /\ \A b \in 1..Len(ev) :
               ev[b].i > 1
                   => \E a \in 1..(b - 1) :
                          ev[a].ev = "write" /\ ev[a].i = ev[b].i - 1
        /\ \A b \in 1..Len(ev) :
               (sp_cb # "none" /\ ev[b].ev # "progress")
                   => \E a \in 1..(b - 1) :
                          ev[a] = [ev |-> "progress", i |-> ev[b].i,
                                   total |-> Len(ranges)]
        /\ \A n \in 1..Len(pe) : pe[n].i = n /\ pe[n].total = Len(ranges)
        /\ sp_cb = "none" => pe = <<>>
        /\ sp_ret = "True" /\ sp_cb # "none" => Len(pe) = Len(ranges)

C8_Witness ==
    /\ sp_cb = "user"
    /\ sp_ret = "True"
    /\ Len(ranges) = 3
    /\ Len(ProgressEvents) = 3
    /\ Len(SplitEvents) = 14

\* the range in which split_pdf failed (the loop index is not advanced)
FailedRange == sp_i + 1

\* split_pdf returned after an exception raised while it worked on a range
FailedInRange ==
    /\ sp_pc = "returned"
    /\ sp_exc \in {"CallbackError", "PdfReadError", "IndexError", "OSError"}

HasWritten(k) ==
    \E a \in 1..Len(events) : events[a].ev = "write" /\ events[a].i = k

C10_FailsFastOnMismatch ==
    (/\ sp_pc \notin {"idle", "entry"}
     /\ reader
     /\ ValidParams(total_pages, sp_pps)
     /\ Len(sp_files) # Len(ranges))
        => /\ sp_ret # "True"
           /\ \A a \in 1..Len(events) : events[a].ev \notin {"open", "write"}


\* the files split_pdf opened for writing, as (range, path) events
OpenEvents == SelectSeq(events, LAMBDA e : e.ev = "open")

\* C11: writes are all-or-nothing per file.  After split_pdf has failed, no
\* partially written or empty file is left at an output path: every file the
\* call opened holds the whole of its range.
C11_AllOrNothing ==
    (sp_pc = "returned" /\ sp_ret = "False")
        => \A a \in 1..Len(OpenEvents) :
               /\ Exists(OpenEvents[a].path)
               /\ fs[OpenEvents[a].path] =
                      [pages |-> PageSpan(ranges[OpenEvents[a].i]),
                       complete |-> TRUE]

\* the name ends in ".pdf", in any mix of upper and lower case
IsPdfName(p) ==
    /\ Len(p.name) >= 4
    /\ LET n == Len(p.name)
       IN  /\ p.name[n - 3] = "."
           /\ p.name[n - 2] \in {"p", "P"}
           /\ p.name[n - 1] \in {"d", "D"}
           /\ p.name[n] \in {"f", "F"}

\* print_file hands p to a platform print routine
Submittable(p) ==
    /\ Exists(p)
    /\ IsPdfName(p)
    /\ pm_system \in {"Windows", "Darwin", "Linux"}

\* the keys of the first n paths of file_paths
KeysOf(n) == {PathStr(pr_files[k]) : k \in 1..n}

\* C12: print_multiple_files submits the files one at a time in input order:
\* at every moment the outcomes of exactly the first i files are recorded, the
\* files submitted so far are the submittable ones among them in input order,
\* and the call returns only after the last file, whether the submissions
\* before it succeeded or failed.
C12_SequentialInOrder ==
    /\ pr_i \in 0..Len(pr_files)
    /\ DOMAIN results = KeysOf(pr_i)
    /\ dispatched = SelectSeq(SubSeq(pr_files, 1, pr_i), Submittable)
    /\ pr_pc = "returned" => pr_i = Len(pr_files)

\* 3 files where submission 2 fails: dispatch order 1, 2, 3 and outcomes
\* success, failure, success
C12_Witness ==
    /\ pr_pc = "returned"
    /\ pr_files = <<output_path(<<"d">>, 0), output_path(<<"d">>, 1), UpperPath>>
    /\ dispatched = pr_files
    /\ results[PathStr(pr_files[1])].success
    /\ ~results[PathStr(pr_files[2])].success
    /\ results[PathStr(pr_files[2])].message = "print failed"
    /\ results[PathStr(pr_files[3])].success

\* C13: print_file validates before dispatch: a path that does not exist or
\* whose suffix is not ".pdf" (case-insensitive) gets a failure outcome and is
\* never handed to a platform print routine; only existing ".pdf" files are.
C13_ValidateBeforeDispatch ==
    /\ \A k \in 1..pr_i :
           LET p == pr_files[k]
           IN  (~Exists(p) \/ ~IsPdfName(p))
                   => /\ ~results[PathStr(p)].success
                      /\ results[PathStr(p)].message =
                             (IF ~Exists(p) THEN "File not found"
                              ELSE "Only PDF files are supported")
                      /\ \A j \in 1..Len(dispatched) : dispatched[j] # p
    /\ \A j \in 1..Len(dispatched) :
           Exists(dispatched[j]) /\ IsPdfName(dispatched[j])

\* a missing PDF, a file named ".PDF" and a text file: only the second is
\* submitted
C13_Witness ==
    /\ pr_pc = "returned"
    /\ pr_files = <<MissingPath, UpperPath, TextPath>>
    /\ dispatched = <<UpperPath>>
    /\ results[PathStr(MissingPath)].message = "File not found"
    /\ results[PathStr(TextPath)].message = "Only PDF files are supported"

PrintProgressEvents == SelectSeq(events, LAMBDA e : e.ev = "print_progress")

\* C14: the mapping print_multiple_files returns has an entry for every input
\* path and for no other path, whatever the outcomes were; an exception of a
\* platform print routine becomes the (False, message) outcome of its file,
\* and the only exception that leaves the call is one of the caller's own
\* progress callback.
C14_CompleteMapping ==
    /\ pr_pc = "returned" => DOMAIN results = KeysOf(Len(pr_files))
    /\ \A key \in DOMAIN results :
           results[key].message = "Print error" => ~results[key].success
    /\ pr_pc = "raised"
           => /\ pr_cb = "user"
              /\ Len(PrintProgressEvents) = pr_i + 1

\* a validation failure, a success and a print routine that raised: three
\* entries, the call returned
C14_Witness ==
    /\ pr_pc = "returned"
    /\ pr_files = <<MissingPath, output_path(<<"d">>, 0), output_path(<<"d">>, 1)>>
    /\ Cardinality(DOMAIN results) = 3
    /\ ~results[PathStr(pr_files[1])].success
    /\ results[PathStr(pr_files[2])].success
    /\ results[PathStr(pr_files[3])].message = "Print error"

\* C15: a load error (unreadable PDF or zero pages) or an invalid pages
\* parameter ends main before any output is produced: the output directory
\* has not been created, no split file has been opened or written, and no
\* print job has been submitted.
C15_NoOutputOnEarlyError ==
    m_end \in {"load_error", "invalid_parameter"}
        => /\ exit_code = 1
           /\ events = <<>>
           /\ StorageUntouched
           /\ sp_pc = "idle"
           /\ pr_pc = "idle"
           /\ dispatched = <<>>

\* a PDF without pages, the output directory is missing and stays missing
C15_Witness ==
    /\ m_end = "load_error"
    /\ reader
    /\ total_pages = 0
    /\ ~out_dir_exists
    /\ fs = <<>>

\* a print submission of the run failed
SomePrintFailed == \E key \in DOMAIN results : ~results[key].success

\* C16: main returns 0 only when what was asked for succeeded (or the user
\* called it off), and returns 1 on every validation or operational failure,
\* a failed split and one or more failed print submissions included.
C16_ExitCodes ==
    m_pc = "exit"
        => /\ exit_code = 0
                  => /\ m_end \in {"list_printers", "preview", "cancelled",
                                   "print_cancelled", "done"}
                     /\ ~SomePrintFailed
           /\ m_end \in {"input_not_found", "input_not_a_file", "load_error",
                         "invalid_parameter", "mkdir_error", "split_failed"}
                  => exit_code = 1
           /\ SomePrintFailed => exit_code = 1

\* the path of range k is not opened again for a later range of the call
NotReopened(k) ==
    \A a \in 1..Len(OpenEvents) :
        OpenEvents[a].i > k => OpenEvents[a].path # sp_files[k]

\* C18: split_pdf aborts the whole loop on the first exception.  If range i
\* fails, the files of ranges 1..i-1 remain written, no range after i is
\* processed, no further progress callback is made and the call returns
\* False; it returns True if and only if every range was written without an
\* exception; a splitter whose PDF was never loaded returns False without
\* writing any file.
C18_AbortOnFirstException ==
    /\ FailedInRange
           => /\ sp_ret = "False"
              /\ \A k \in 1..(FailedRange - 1) :
                     /\ HasWritten(k)
                     /\ Exists(sp_files[k])
                     /\ NotReopened(k)
                            => fs[sp_files[k]] = [pages |-> PageSpan(ranges[k]),
                                                  complete |-> TRUE]
              /\ \A a \in 1..Len(SplitEvents) : SplitEvents[a].i <= FailedRange
              /\ Len(ProgressEvents) <= FailedRange
    /\ sp_pc = "returned"
           => (sp_ret = "True"
                   <=> /\ reader
                       /\ sp_exc = ""
                       /\ \A k \in 1..Len(ranges) : HasWritten(k))
    /\ (sp_pc = "returned" /\ ~reader)
           => /\ sp_ret = "False"
              /\ SplitEvents = <<>>
              /\ StorageUntouched

\* the callback raises for range 3 of 3: two files are written and stay, the
\* third is never opened
C18_Witness ==
    /\ sp_pc = "returned"
    /\ sp_exc = "CallbackError"
    /\ sp_ret = "False"
    /\ Len(ranges) = 3
    /\ FailedRange = 3
    /\ Len(ProgressEvents) = 3
    /\ Len(OpenEvents) = 2
    /\ Len(sp_files) = 3
    /\ fs[sp_files[2]] = [pages |-> PageSpan(ranges[2]), complete |-> TRUE]
    /\ ~Exists(sp_files[3])

\* main has resolved its output paths (it stands before the call of
\* split_pdf, or has made it)
PathsResolved == m_pc = "split" \/ sp_pc # "idle"

MainOpened == {OpenEvents[a].path : a \in 1..Len(OpenEvents)}

\* the paths the second instance has opened for writing
PeerOpened ==
    {peer.files[k] :
         k \in 1..(IF peer.pc = "write" THEN peer.i + 1 ELSE peer.i)}

\* the paths that existed when the first instance resolved its names
MainSeen ==
    LET r == SelectSeq(events, LAMBDA e : e.ev = "resolve")
    IN  IF r = <<>> THEN {} ELSE r[1].seen

\* the paths both instances have written
WrittenByBoth == MainOpened \cap PeerOpened

\* C17: resolve-then-write is not atomic.  Each instance writes only paths
\* that did not exist when it resolved its names, so a path is written by
\* both instances only when both resolved it before either created it; then
\* the later write replaces the earlier file.  With a single instance no path
\* is written twice and no file that was there is replaced.
C17_ResolveWriteRace ==
    /\ MainOpened \cap MainSeen = {}
    /\ PeerOpened \cap peer.seen = {}
    /\ \A p \in WrittenByBoth :
           /\ peer.pc # "absent"
           /\ p \notin MainSeen
           /\ p \notin peer.seen
    /\ peer.pc = "absent"
           => /\ WrittenByBoth = {}
              /\ Cardinality(MainOpened) = Len(OpenEvents)
              /\ \A q \in DOMAIN fs : q \notin MainOpened => fs[q] = OldContent

\* both instances ran to the end and report success, and a file the first
\* instance wrote holds the pages of the second
C17_Witness ==
    /\ m_end = "done"
    /\ sp_ret = "True"
    /\ peer.pc = "done"
    /\ \E p \in WrittenByBoth :
           /\ fs[p].complete
           /\ fs[p].pages[1] > 100
=============================================================================
